---------------------------- MODULE Spec2Model ----------------------------
(***************************************************************************)
(* A model of llia-http: the HttpClient class (constructor, get, post,     *)
(* put, patch, delete), the request executor executeRequest with its       *)
(* error-body parser parseErrorFromResponse, and the header utilities      *)
(* assembleHeaders, toHeadersObject and extractHeadersDict.                *)
(*                                                                         *)
(* JavaScript values are records tagged by t.  A plain object used as a    *)
(* header dictionary (Record<string, string>) is a sequence of <<key,      *)
(* value>> pairs with unique, case-sensitive keys in insertion order,      *)
(* which is the order Object.entries yields for non-numeric keys.  A       *)
(* platform Headers object is a sequence of <<name, value>> pairs with     *)
(* lower-case names, sorted by name, which is the order its iteration      *)
(* yields.                                                                 *)
(*                                                                         *)
(* The calls in flight on the client are a bag of call records: a call is  *)
(* an anonymous promise, told from another only by its state.  A call      *)
(* record holds the request from its dispatch until fetch settles, then    *)
(* the response, then the outcome.  Each action is the code that runs      *)
(* between two awaits.                                                     *)
(*                                                                         *)
(* Header values are taken to be valid, and header names not to look like  *)
(* array indices (which Object.entries would list first).                  *)
(***************************************************************************)
EXTENDS Naturals, Sequences, FiniteSets, Bags

VARIABLES config, baseUrl, defaultHeaders, calls

vars == <<config, baseUrl, defaultHeaders, calls>>

-----------------------------------------------------------------------------
(* Bounds *)

\* Number of calls that may be in flight on the one client at the same time.
MaxCalls == 2

\* Longest list of name/value pairs a header input is built from.
MaxPairs == 2

-----------------------------------------------------------------------------
(* JavaScript values *)

Undefined == [t |-> "undefined"]

Null == [t |-> "null"]

Str(s) == [t |-> "string", s |-> s]

Num(n) == [t |-> "number", n |-> n]

\* A plain object: props is a sequence of <<key, value>> pairs.
Obj(props) == [t |-> "object", props |-> props]

\* An object that refers to itself: JSON.stringify throws a TypeError on it.
CircularBody == [t |-> "circular"]

UserBody == Obj(<< <<"id", Num(1)>> >>)

\* parsed.message / parsed.name: reading a property of null throws a
\* TypeError; of an object gives the property or undefined; of a string,
\* number or boolean gives undefined.
HasProp(v, k) == v.t = "object" /\ \E i \in 1..Len(v.props) : v.props[i][1] = k

GetProp(v, k) ==
    IF HasProp(v, k)
    THEN LET i == CHOOSE j \in 1..Len(v.props) : v.props[j][1] = k
         IN v.props[i][2]
    ELSE Undefined

\* JavaScript truthiness, as used by the || operator.
Truthy(v) ==
    CASE v.t = "undefined" -> FALSE
      [] v.t = "null" -> FALSE
      [] v.t = "string" -> v.s # ""
      [] v.t = "number" -> v.n # 0
      [] OTHER -> TRUE

\* a || b
OrElse(a, b) == IF Truthy(a) THEN a ELSE b

-----------------------------------------------------------------------------
(* Header names *)

ValidNames == {"A", "a", "Content-Type", "content-type"}

\* A name with a space is not an HTTP token: Headers.set throws a TypeError.
InvalidNames == {"bad name"}

Names == ValidNames \cup InvalidNames

Values == {"1", "2"}

\* String.prototype.toLowerCase on the names of the model (Headers lower-cases
\* every name it stores).
Lower(name) ==
    CASE name = "A" -> "a"
      [] name = "Content-Type" -> "content-type"
      [] name = "X-Request-Id" -> "x-request-id"
      [] OTHER -> name

IsValidName(name) == name \notin InvalidNames

\* The lower-case names in the order a Headers object iterates them.
SortedLowerNames == <<"a", "content-type", "x-request-id">>

Rank(lname) == CHOOSE i \in 1..Len(SortedLowerNames) : SortedLowerNames[i] = lname

-----------------------------------------------------------------------------
(* Header dictionaries and Headers objects *)

HasKey(dict, key) == \E i \in 1..Len(dict) : dict[i][1] = key

\* dict[key] = value on a plain object: an existing key keeps its place in the
\* insertion order, a new key goes last.
DictSet(dict, key, value) ==
    IF HasKey(dict, key)
    THEN [i \in 1..Len(dict) |->
            IF dict[i][1] = key THEN <<key, value>> ELSE dict[i]]
    ELSE Append(dict, <<key, value>>)

\* dict[key] = value for each entry in turn (a forEach, a for-of loop or
\* Object.assign over the entries).
RECURSIVE DictAssign(_, _)
DictAssign(dict, entries) ==
    IF entries = <<>>
    THEN dict
    ELSE DictAssign(DictSet(dict, Head(entries)[1], Head(entries)[2]), Tail(entries))

\* The entry of a Headers object goes where its lower-case name sorts.
HeadersPut(headers, lname, value) ==
    IF HasKey(headers, lname)
    THEN [i \in 1..Len(headers) |->
            IF headers[i][1] = lname THEN <<lname, value>> ELSE headers[i]]
    ELSE LET k == Cardinality({i \in 1..Len(headers) :
                                 Rank(headers[i][1]) < Rank(lname)})
         IN SubSeq(headers, 1, k) \o << <<lname, value>> >>
                \o SubSeq(headers, k + 1, Len(headers))

\* Headers.prototype.set for a valid name: replaces the value stored under the
\* lower-cased name.
HeadersSet(headers, name, value) == HeadersPut(headers, Lower(name), value)

HeadersGet(headers, lname) ==
    LET i == CHOOSE j \in 1..Len(headers) : headers[j][1] = lname
    IN headers[i][2]

\* Headers.prototype.append for a valid name: a repeated name joins the values
\* with ", ".
HeadersAppend(headers, name, value) ==
    IF HasKey(headers, Lower(name))
    THEN HeadersPut(headers, Lower(name),
                    HeadersGet(headers, Lower(name)) \o ", " \o value)
    ELSE HeadersPut(headers, Lower(name), value)

\* new Headers(pairs), the way a caller builds the Headers shape.
RECURSIVE HeadersFrom(_, _)
HeadersFrom(headers, pairs) ==
    IF pairs = <<>>
    THEN headers
    ELSE HeadersFrom(HeadersAppend(headers, Head(pairs)[1], Head(pairs)[2]), Tail(pairs))

\* A HeadersInit argument: undefined, a Headers object, an array of pairs or a
\* plain object, each with its entries in iteration order.
NoHeaders == [shape |-> "undefined", entries |-> <<>>]

AsHeaders(pairs) == [shape |-> "Headers", entries |-> HeadersFrom(<<>>, pairs)]

AsArray(pairs) == [shape |-> "array", entries |-> pairs]

AsObject(pairs) == [shape |-> "object", entries |-> DictAssign(<<>>, pairs)]

\* What the caller's baseHeaders object would hold had assembleHeaders
\* merged into it ("const combined = baseHeaders") instead of into a copy.
AssembleHeadersBaseAliased(baseHeaders, additionalHeaders) ==
    IF additionalHeaders.shape = "undefined"
    THEN baseHeaders
    ELSE DictAssign(baseHeaders, additionalHeaders.entries)

\* The state of the caller's baseHeaders object once assembleHeaders has
\* returned: "const combined = { ...baseHeaders }" works on a copy.
AssembleHeadersBase(baseHeaders, additionalHeaders) == baseHeaders

\* assembleHeaders: the three shapes all end in combined[key] = val for each
\* entry in the shape's iteration order.
AssembleHeaders(baseHeaders, additionalHeaders) ==
    LET combined == baseHeaders
    IN IF additionalHeaders.shape = "undefined"
       THEN combined
       ELSE IF additionalHeaders.shape = "Headers"
       THEN DictAssign(combined, additionalHeaders.entries)
       ELSE IF additionalHeaders.shape = "array"
       THEN DictAssign(combined, additionalHeaders.entries)
       ELSE DictAssign(combined, additionalHeaders.entries)

\* toHeadersObject: headers.set(key, value) for each entry; a name that is no
\* HTTP token makes set throw.
RECURSIVE HeadersSetAll(_, _)
HeadersSetAll(headers, entries) ==
    IF entries = <<>>
    THEN headers
    ELSE HeadersSetAll(HeadersSet(headers, Head(entries)[1], Head(entries)[2]),
                       Tail(entries))

ToHeadersObject(headerDict) ==
    IF \E i \in 1..Len(headerDict) : ~IsValidName(headerDict[i][1])
    THEN [threw |-> TRUE, headers |-> <<>>]
    ELSE [threw |-> FALSE, headers |-> HeadersSetAll(<<>>, headerDict)]

\* extractHeadersDict: dict[key] = value over the response's Headers.
ExtractHeadersDict(response) == DictAssign(<<>>, response.headers)

-----------------------------------------------------------------------------
(* JSON *)

\* JSON.stringify on the body values of the model; a circular object throws.
JSONStringify(value) ==
    CASE value.t = "circular" -> [threw |-> TRUE, text |-> ""]
      [] value.t = "null" -> [threw |-> FALSE, text |-> "null"]
      [] value = UserBody -> [threw |-> FALSE, text |-> "{\"id\":1}"]
      [] OTHER -> [threw |-> FALSE, text |-> "{}"]

ErrorBodyText == "{\"name\":\"api_failure\",\"message\":\"Something went wrong\"}"

EmptyMessageText == "{\"message\":\"\"}"

\* The response body texts of the model: an empty body, a plain-text body,
\* and JSON texts of a null, an empty object, an error object, an object
\* whose message is the empty string, and a string.
BodyTexts ==
    {"", "Internal Server Error", "null", "{}", ErrorBodyText, EmptyMessageText,
     "\"oops\""}

\* JSON.parse on the body texts of the model; a text that is no JSON throws a
\* SyntaxError.
JSONParse(text) ==
    CASE text = "null" -> [threw |-> FALSE, value |-> Null]
      [] text = "{}" -> [threw |-> FALSE, value |-> Obj(<<>>)]
      [] text = ErrorBodyText ->
            [threw |-> FALSE,
             value |-> Obj(<< <<"name", Str("api_failure")>>,
                              <<"message", Str("Something went wrong")>> >>)]
      [] text = EmptyMessageText ->
            [threw |-> FALSE, value |-> Obj(<< <<"message", Str("")>> >>)]
      [] text = "\"oops\"" -> [threw |-> FALSE, value |-> Str("oops")]
      [] OTHER -> [threw |-> TRUE, value |-> Undefined]

-----------------------------------------------------------------------------
(* Responses and results *)

Statuses == {200, 404}

StatusText(status) == IF status = 200 THEN "OK" ELSE "Not Found"

\* The header sets a response may carry, each as the sequence of pairs that
\* Headers.forEach visits: lower-case names in sorted order, one pair per
\* name, except set-cookie, which is visited once per header field.
ResponseHeaderSets ==
    {<< <<"content-type", "application/json">>, <<"x-request-id", "7">> >>,
     << <<"content-type", "application/json">>, <<"set-cookie", "a=1">>,
        <<"set-cookie", "b=2">> >>}

NoResponse == [t |-> "none"]

Responses ==
    {[t |-> "response", status |-> st, statusText |-> StatusText(st), headers |-> h] :
        st \in Statuses, h \in ResponseHeaderSets}

\* response.ok
Ok(response) == response.status \in 200..299

\* How reading the body ends: the text arrives, the read rejects with an
\* Error, or it rejects with a value that is no Error.
NotRead == [kind |-> "pending", text |-> ""]

BodyReads ==
    {[kind |-> "text", text |-> tx] : tx \in BodyTexts}
        \cup {[kind |-> "error", text |-> "body stream failed"],
              [kind |-> "nonError", text |-> ""]}

ErrorResponse(message, statusCode, name) ==
    [t |-> "object", message |-> message, statusCode |-> statusCode, name |-> name]

HeadersRecord(dict) == [t |-> "object", props |-> dict]

NoResult == [t |-> "none"]

Result(data, error, headers) == [t |-> "result", data |-> data, error |-> error, headers |-> headers]

InternalErrorMessage ==
    "Internal server error. We are unable to process your request right now, please try again later."

PropertyOfNullMessage == "Cannot read properties of null (reading 'message')"

\* parseErrorFromResponse
ParseErrorFromResponse(response, read) ==
    IF read.kind = "text"
    THEN LET parsed == JSONParse(read.text)
         IN IF parsed.threw
            THEN \* err instanceof SyntaxError
                 ErrorResponse(Str(InternalErrorMessage), Num(response.status),
                               Str("application_error"))
            ELSE IF parsed.value.t = "null"
            THEN \* parsed.message throws a TypeError: err instanceof Error
                 ErrorResponse(Str(PropertyOfNullMessage), Num(response.status),
                               Str("application_error"))
            ELSE ErrorResponse(
                     OrElse(GetProp(parsed.value, "message"), Str("Unknown error occurred")),
                     Num(response.status),
                     OrElse(GetProp(parsed.value, "name"), Str("application_error")))
    ELSE IF read.kind = "error"
    THEN \* response.text() rejected: err instanceof Error
         ErrorResponse(Str(read.text), Num(response.status), Str("application_error"))
    ELSE ErrorResponse(OrElse(Str(response.statusText), Str("Request failed")),
                       Num(response.status), Str("application_error"))

\* A catch block that reports status 0 and an empty header mapping.
NetworkFailureStatusZero ==
    [t |-> "result", data |-> Null,
     error |-> [t |-> "object",
                message |-> Str("Unable to fetch data. The request could not be resolved."),
                statusCode |-> Num(0), name |-> Str("application_error")],
     headers |-> [t |-> "object", props |-> <<>>]]

\* The result of executeRequest's catch block.
NetworkFailure ==
    Result(Null,
           ErrorResponse(Str("Unable to fetch data. The request could not be resolved."),
                         Null, Str("application_error")),
           Null)

\* The body of executeRequest's try block once fetch has resolved: the
\* result it returns, or threw when response.json() rejects.
TryResponse(response, read) ==
    IF ~Ok(response)
    THEN [threw |-> FALSE,
          result |-> Result(Null, ParseErrorFromResponse(response, read),
                            HeadersRecord(ExtractHeadersDict(response)))]
    ELSE IF read.kind = "text" /\ ~JSONParse(read.text).threw
    THEN [threw |-> FALSE,
          result |-> Result(JSONParse(read.text).value, Null,
                            HeadersRecord(ExtractHeadersDict(response)))]
    ELSE [threw |-> TRUE, result |-> NoResult]

\* An executor without the catch block: what is thrown rejects the promise.
ExecuteCatchFetchOnly(attempt) ==
    IF attempt.threw
    THEN [outcome |-> "rejected", result |-> NoResult]
    ELSE [outcome |-> "returned", result |-> attempt.result]

\* executeRequest's try/catch around an attempt: whatever was thrown inside
\* the try block ends as the network-failure result.
ExecuteCatch(attempt) ==
    IF attempt.threw
    THEN [outcome |-> "returned", result |-> NetworkFailure]
    ELSE [outcome |-> "returned", result |-> attempt.result]

-----------------------------------------------------------------------------
(* The client *)

\* A constructor that applies the Content-Type default over the config's
\* headers instead of under them.
ConstructorDefaultLast(cfg) ==
    LET seed == << <<"Content-Type", "application/json">> >>
    IN [baseUrl |-> IF Truthy(cfg.url) THEN cfg.url.s ELSE "",
        defaultHeaders |->
            IF cfg.headers.shape # "undefined"
            THEN DictAssign(AssembleHeaders(<<>>, cfg.headers), seed)
            ELSE seed]

\* HttpClient's constructor: [baseUrl, defaultHeaders] for a ClientConfig
\* [url, headers]; url is undefined or a string.
Constructor(cfg) ==
    LET seed == << <<"Content-Type", "application/json">> >>
    IN [baseUrl |-> IF Truthy(cfg.url) THEN cfg.url.s ELSE "",
        defaultHeaders |->
            IF cfg.headers.shape # "undefined"
            THEN DictAssign(seed, AssembleHeaders(<<>>, cfg.headers))
            ELSE seed]

\* A buildUrl that passes an absolute endpoint through.
BuildUrlAbsoluteAware(base, endpoint) ==
    IF endpoint \in {"https://other.example.com/users"} THEN endpoint ELSE base \o endpoint

\* buildUrl: `${this.baseUrl}${endpoint}`
BuildUrl(base, endpoint) == base \o endpoint

\* A buildRequestConfig that tests "if (body)": a null body is left out.
BuildRequestConfigTruthyBody(defaults, method, body, options) ==
    LET object == ToHeadersObject(AssembleHeaders(defaults, options.headers))
        text == JSONStringify(body)
    IN IF object.threw
       THEN [threw |-> "Headers.set", method |-> method, headers |-> <<>>,
             body |-> Undefined]
       ELSE IF Truthy(body)
       THEN IF text.threw
            THEN [threw |-> "JSON.stringify", method |-> method, headers |-> <<>>,
                  body |-> Undefined]
            ELSE [threw |-> "nothing", method |-> method, headers |-> object.headers,
                  body |-> Str(text.text)]
       ELSE [threw |-> "nothing", method |-> method, headers |-> object.headers,
             body |-> Undefined]

\* buildRequestConfig: the RequestInit handed to fetch; threw names the call
\* that threw, if toHeadersObject's Headers.set or JSON.stringify did.
BuildRequestConfig(defaults, method, body, options) ==
    LET headers == AssembleHeaders(defaults, options.headers)
        object == ToHeadersObject(headers)
        text == JSONStringify(body)
    IN IF object.threw
       THEN [threw |-> "Headers.set", method |-> method, headers |-> <<>>,
             body |-> Undefined]
       ELSE IF body.t # "undefined"
       THEN IF text.threw
            THEN [threw |-> "JSON.stringify", method |-> method, headers |-> <<>>,
                  body |-> Undefined]
            ELSE [threw |-> "nothing", method |-> method, headers |-> object.headers,
                  body |-> Str(text.text)]
       ELSE [threw |-> "nothing", method |-> method, headers |-> object.headers,
             body |-> Undefined]

-----------------------------------------------------------------------------
(* Inputs *)

Endpoints == {"/users", "https://other.example.com/users"}

\* The body arguments: none, a plain object, an object JSON.stringify rejects.
Bodies == {Undefined, UserBody, CircularBody}

\* The body arguments that can be transmitted: none, null, a plain object.
RequestBodies == {Undefined, Null, UserBody}

\* The ClientConfig and RequestConfig arguments of the call life cycle.
Configs ==
    {[url |-> u, headers |-> h] :
        u \in {Undefined, Str("https://api.example.com")},
        h \in {NoHeaders, AsObject(<< <<"A", "1">> >>)}}

Options ==
    {[headers |-> h] :
        h \in {NoHeaders, AsObject(<< <<"A", "2">> >>),
               AsArray(<< <<"bad name", "2">> >>)}}

\* The header inputs of the merge: every shape over every list of at most
\* MaxPairs name/value pairs (a Headers object holds valid names only).
PairSeqs(names) == UNION {[1..k -> names \X Values] : k \in 0..MaxPairs}

HeaderInits ==
    {NoHeaders}
        \cup {AsArray(p) : p \in PairSeqs(Names)}
        \cup {AsObject(p) : p \in PairSeqs(Names)}
        \cup {AsHeaders(p) : p \in PairSeqs(ValidNames)}

MergeConfigs == {[url |-> Undefined, headers |-> h] : h \in HeaderInits}

MergeOptions == {[headers |-> h] : h \in HeaderInits}

\* The header inputs that name Content-Type, in either letter case and every
\* shape, or nothing.
ContentTypeNames == {"Content-Type", "content-type"}

ContentTypeInits ==
    {NoHeaders}
        \cup {AsArray(p) : p \in PairSeqs(ContentTypeNames)}
        \cup {AsObject(p) : p \in PairSeqs(ContentTypeNames)}
        \cup {AsHeaders(p) : p \in PairSeqs(ContentTypeNames)}

ContentTypeConfigs == {[url |-> Undefined, headers |-> h] : h \in ContentTypeInits}

ContentTypeOptions == {[headers |-> h] : h \in ContentTypeInits}

-----------------------------------------------------------------------------
(* State *)

\* The call records in flight.
Calls == BagToSet(calls)

\* The bag with call record c replaced by record d.
Replace(c, d) == (calls (-) SetToBag({c})) (+) SetToBag({d})

\* The state after new HttpClient(cfg): no call in flight.
InitWith(cfg) ==
    /\ config = cfg
    /\ baseUrl = Constructor(cfg).baseUrl
    /\ defaultHeaders = Constructor(cfg).defaultHeaders
    /\ calls = EmptyBag

Init == \E cfg \in Configs : InitWith(cfg)

InitMerge == \E cfg \in MergeConfigs : InitWith(cfg)

InitContentType == \E cfg \in ContentTypeConfigs : InitWith(cfg)

-----------------------------------------------------------------------------
(* Actions *)

\* The synchronous part of get/post/put/patch/delete: buildUrl,
\* buildRequestConfig and executeRequest up to "await fetch(...)".  A throw
\* in buildRequestConfig rejects the promise the async method returned.
\* At most limit calls are in flight; op is the operation called, method
\* the method name it passes to buildRequestConfig.
Request(limit, op, method, endpoint, body, options) ==
    /\ BagCardinality(calls) < limit
    /\ LET url == BuildUrl(baseUrl, endpoint)
           requestConfig == BuildRequestConfig(defaultHeaders, method, body, options)
       IN calls' = calls (+) SetToBag({
            IF requestConfig.threw # "nothing"
            THEN [pc |-> "done", outcome |-> "rejected", result |-> NoResult,
                  response |-> NoResponse, read |-> NotRead, nFetch |-> 0,
                  threw |-> requestConfig.threw]
            ELSE [pc |-> "awaitFetch", op |-> op, endpoint |-> endpoint,
                  body |-> body, options |-> options, nFetch |-> 1,
                  request |-> [url |-> url, method |-> requestConfig.method,
                               headers |-> requestConfig.headers,
                               body |-> requestConfig.body]]})
    /\ defaultHeaders' = AssembleHeadersBase(defaultHeaders, options.headers)
    /\ UNCHANGED <<config, baseUrl>>

Get ==
    \E endpoint \in Endpoints, options \in Options :
        Request(MaxCalls, "get", "GET", endpoint, Undefined, options)

Post ==
    \E endpoint \in Endpoints, body \in Bodies, options \in Options :
        Request(MaxCalls, "post", "POST", endpoint, body, options)

Put ==
    \E endpoint \in Endpoints, body \in Bodies, options \in Options :
        Request(MaxCalls, "put", "PUT", endpoint, body, options)

Patch ==
    \E endpoint \in Endpoints, body \in Bodies, options \in Options :
        Request(MaxCalls, "patch", "PATCH", endpoint, body, options)

Delete ==
    \E endpoint \in Endpoints, body \in Bodies, options \in Options :
        Request(MaxCalls, "delete", "DELETE", endpoint, body, options)

\* get by a single caller, with the header inputs of the merge.
GetMerge ==
    \E options \in MergeOptions : Request(1, "get", "GET", "/users", Undefined, options)

\* Each operation by a single caller, without and with a body, with the
\* header inputs that name Content-Type.
GetContentType ==
    \E options \in ContentTypeOptions :
        Request(1, "get", "GET", "/users", Undefined, options)

PostContentType ==
    \E body \in RequestBodies, options \in ContentTypeOptions :
        Request(1, "post", "POST", "/users", body, options)

PutContentType ==
    \E body \in RequestBodies, options \in ContentTypeOptions :
        Request(1, "put", "PUT", "/users", body, options)

PatchContentType ==
    \E body \in RequestBodies, options \in ContentTypeOptions :
        Request(1, "patch", "PATCH", "/users", body, options)

DeleteContentType ==
    \E body \in RequestBodies, options \in ContentTypeOptions :
        Request(1, "delete", "DELETE", "/users", body, options)

\* fetch rejects: no response was received; the catch block returns.
FetchReject ==
    /\ \E c \in Calls :
        /\ c.pc = "awaitFetch"
        /\ LET end == ExecuteCatch([threw |-> TRUE, result |-> NoResult])
           IN calls' = Replace(c,
                [pc |-> "done", outcome |-> end.outcome, result |-> end.result,
                 response |-> NoResponse, read |-> NotRead, nFetch |-> c.nFetch,
                 threw |-> "fetch"])
    /\ UNCHANGED <<config, baseUrl, defaultHeaders>>

\* fetch resolves with a response; the executor goes on to await its body
\* (response.text() of a failure, response.json() of a success).
FetchResolve ==
    /\ \E c \in Calls, response \in Responses :
        /\ c.pc = "awaitFetch"
        /\ calls' = Replace(c,
                [pc |-> "awaitBody", response |-> response, nFetch |-> c.nFetch])
    /\ UNCHANGED <<config, baseUrl, defaultHeaders>>

\* The body read settles and executeRequest returns (or its catch does).
BodyRead ==
    /\ \E c \in Calls, read \in BodyReads :
        /\ c.pc = "awaitBody"
        /\ LET end == ExecuteCatch(TryResponse(c.response, read))
           IN calls' = Replace(c,
                [pc |-> "done", outcome |-> end.outcome, result |-> end.result,
                 response |-> c.response, read |-> read, nFetch |-> c.nFetch,
                 threw |-> IF TryResponse(c.response, read).threw
                           THEN "response.json" ELSE "nothing"])
    /\ UNCHANGED <<config, baseUrl, defaultHeaders>>

\* The caller has taken the settled promise; it may call again.
Return ==
    /\ \E c \in Calls :
        /\ c.pc = "done"
        /\ calls' = calls (-) SetToBag({c})
    /\ UNCHANGED <<config, baseUrl, defaultHeaders>>

Next ==
    \/ Get
    \/ Post
    \/ Put
    \/ Patch
    \/ Delete
    \/ FetchReject
    \/ FetchResolve
    \/ BodyRead
    \/ Return

Spec == Init /\ [][Next]_vars

\* One caller issuing get with every header input, on clients built with
\* every header input.
NextMerge ==
    \/ GetMerge
    \/ FetchReject
    \/ FetchResolve
    \/ BodyRead
    \/ Return

SpecMerge == InitMerge /\ [][NextMerge]_vars

\* One caller issuing every operation, on clients built with every header
\* input that names Content-Type.
NextContentType ==
    \/ GetContentType
    \/ PostContentType
    \/ PutContentType
    \/ PatchContentType
    \/ DeleteContentType
    \/ FetchReject
    \/ FetchResolve
    \/ BodyRead
    \/ Return

SpecContentType == InitContentType /\ [][NextContentType]_vars

-----------------------------------------------------------------------------
(* Properties *)

Done(c) == c.pc = "done"

Returned(c) == Done(c) /\ c.outcome = "returned"

Dispatched(c) == c.pc = "awaitFetch"

IsNull(v) == v.t = "null"

\* A response was received and its body text arrived.
GotText(c) ==
    Done(c) /\ c.response.t = "response" /\ c.read.kind = "text"

\* C1: every invocation of the five operations completes by returning a
\* Result; no exception or promise rejection reaches the caller.
C1_NeverRejects == \A c \in Calls : Done(c) => c.outcome = "returned"

\* C2: every returned Result has exactly one of data / error populated
\* (non-null): never both and never neither.
C2_ExactlyOnePopulated ==
    \A c \in Calls :
        Returned(c) => (IsNull(c.result.data) # IsNull(c.result.error))

\* C3: a returned result has null headers or a null statusCode only when no
\* response was received; with a response received its headers are non-null
\* and a Failure's statusCode is the received status.
C3_NullOnlyWithoutResponse ==
    \A c \in Calls :
        Returned(c) =>
            LET r == c.result
                failure == ~IsNull(r.error)
            IN /\ (IsNull(r.headers) \/ (failure /\ IsNull(r.error.statusCode)))
                      => c.response.t = "none"
               /\ c.response.t = "response"
                      => /\ ~IsNull(r.headers)
                         /\ failure => r.error.statusCode = Num(c.response.status)


\* The value the last entry of entries named lname (in any letter case) has.
LastValue(entries, lname) ==
    LET i == CHOOSE j \in 1..Len(entries) :
                /\ Lower(entries[j][1]) = lname
                /\ \A k \in (j + 1)..Len(entries) : Lower(entries[k][1]) # lname
    IN entries[i][2]

Named(entries, lname) == \E i \in 1..Len(entries) : Lower(entries[i][1]) = lname

\* The name/value pairs name each header once, whatever the letter case.
DistinctNames(pairs) ==
    \A i, j \in 1..Len(pairs) : Lower(pairs[i][1]) = Lower(pairs[j][1]) => i = j

\* C4: the transmitted header set has, for each name of the override
\* compared case-insensitively, the override's value, and for each base name
\* the override does not name, the base value (an override naming each
\* header once; of base entries that differ only in letter case, the later).
C4_OverrideWins ==
    \A c \in Calls :
        (Dispatched(c) /\ DistinctNames(c.options.headers.entries)) =>
            LET over == c.options.headers.entries
                sent == c.request.headers
            IN /\ \A i \in 1..Len(over) :
                    /\ HasKey(sent, Lower(over[i][1]))
                    /\ HeadersGet(sent, Lower(over[i][1]))
                           = LastValue(over, Lower(over[i][1]))
               /\ \A i \in 1..Len(defaultHeaders) :
                    ~Named(over, Lower(defaultHeaders[i][1])) =>
                        /\ HasKey(sent, Lower(defaultHeaders[i][1]))
                        /\ HeadersGet(sent, Lower(defaultHeaders[i][1]))
                               = LastValue(defaultHeaders, Lower(defaultHeaders[i][1]))

Mapping(dict) == {dict[i] : i \in 1..Len(dict)}

\* C5: assembleHeaders returns the same merged mapping whether one logical
\* set of override pairs comes as a Headers object, an array of pairs or a
\* plain object.
C5_ShapeIndependent ==
    \A c \in Calls :
        (Dispatched(c) /\ DistinctNames(c.options.headers.entries)) =>
            LET pairs == c.options.headers.entries
                merged(init) == Mapping(AssembleHeaders(defaultHeaders, init))
            IN /\ merged(AsHeaders(pairs)) = merged(AsArray(pairs))
               /\ merged(AsArray(pairs)) = merged(AsObject(pairs))

\* C6: a non-2xx response whose body parses as JSON gives a Failure whose
\* message is the parsed message field if present, else 'Unknown error
\* occurred', whose name is the parsed name field if present, else
\* 'application_error', and whose statusCode is the HTTP status.
C6_ParsedErrorFields ==
    \A c \in Calls :
        (GotText(c) /\ ~Ok(c.response) /\ ~JSONParse(c.read.text).threw) =>
            LET parsed == JSONParse(c.read.text).value
                r == c.result
            IN /\ Returned(c)
               /\ IsNull(r.data)
               /\ ~IsNull(r.error)
               /\ r.error.message =
                      IF HasProp(parsed, "message") THEN GetProp(parsed, "message")
                      ELSE Str("Unknown error occurred")
               /\ r.error.name =
                      IF HasProp(parsed, "name") THEN GetProp(parsed, "name")
                      ELSE Str("application_error")
               /\ r.error.statusCode = Num(c.response.status)

\* A 2xx response was received and its body text is no valid JSON.
UnparseableSuccess(c) ==
    GotText(c) /\ Ok(c.response) /\ JSONParse(c.read.text).threw

IsAbsoluteUrl(endpoint) == endpoint = "https://other.example.com/users"

ConfiguredBase == IF config.url.t = "string" THEN config.url.s ELSE ""

\* C8 (as claimed): the URL handed to the transport is base URL + path for a
\* relative path and the path itself for an absolute one, with or without a
\* base URL.
C8_AbsolutePathUsedAsIs ==
    \A c \in Calls :
        Dispatched(c) =>
            c.request.url =
                IF IsAbsoluteUrl(c.endpoint) THEN c.endpoint
                ELSE ConfiguredBase \o c.endpoint

\* C8 (amended): the URL handed to the transport is always the configured
\* base URL followed verbatim by the path, absolute or not; it is the path
\* itself exactly when no base URL is configured.
C8_AlwaysConcatenated ==
    \A c \in Calls :
        Dispatched(c) =>
            /\ c.request.url = ConfiguredBase \o c.endpoint
            /\ (c.request.url = c.endpoint) <=> (ConfiguredBase = "")

\* An absolute path was dispatched on a client with a base URL.
C8_Witness ==
    \E c \in Calls :
        /\ Dispatched(c)
        /\ IsAbsoluteUrl(c.endpoint)
        /\ ConfiguredBase = "https://api.example.com"
        /\ c.request.url = "https://api.example.comhttps://other.example.com/users"

\* C9: every invocation that has completed caused exactly one call of fetch.
C9_ExactlyOneFetch == \A c \in Calls : Done(c) => c.nFetch = 1

\* The headers a client built from cfg transmits for an override.
Transmitted(cfg, init) ==
    ToHeadersObject(AssembleHeaders(Constructor(cfg).defaultHeaders, init)).headers

\* C10: no call changes the client's default header set, and what a call
\* transmits depends only on the constructor's headers and its own override:
\* on a client built with {A: "1"}, a call overriding {A: "2"} transmits
\* A: "2" and a call with no override transmits A: "1", whatever other calls
\* ran before or are in flight.
C10_CallsLeaveDefaultsAlone ==
    /\ defaultHeaders = Constructor(config).defaultHeaders
    /\ \A c \in Calls :
        Dispatched(c) =>
            /\ c.request.headers = Transmitted(config, c.options.headers)
            /\ config.headers = AsObject(<< <<"A", "1">> >>) =>
                /\ c.options.headers = AsObject(<< <<"A", "2">> >>)
                       => HeadersGet(c.request.headers, "a") = "2"
                /\ c.options.headers = NoHeaders
                       => HeadersGet(c.request.headers, "a") = "1"

\* Two calls in flight on a client built with {A: "1"}: one overriding
\* {A: "2"}, one with no override.
C10_Witness ==
    \E c, d \in Calls :
        /\ Dispatched(c) /\ Dispatched(d)
        /\ config.headers = AsObject(<< <<"A", "1">> >>)
        /\ c.options.headers = AsObject(<< <<"A", "2">> >>)
        /\ HeadersGet(c.request.headers, "a") = "2"
        /\ d.options.headers = NoHeaders
        /\ HeadersGet(d.request.headers, "a") = "1"


\* The values the entries of a header input give Content-Type, in any
\* letter case.
ContentTypesOf(init) ==
    {init.entries[i][2] : i \in {j \in 1..Len(init.entries) :
                                    Lower(init.entries[j][1]) = "content-type"}}

\* C11: every request carries Content-Type: application/json, for every
\* operation with or without a body, unless the constructor's headers or the
\* call's override name Content-Type (in any letter case and shape); then a
\* value the caller supplied is transmitted instead.
C11_ContentTypeDefault ==
    \A c \in Calls :
        Dispatched(c) =>
            LET supplied == ContentTypesOf(config.headers)
                                \cup ContentTypesOf(c.options.headers)
                sent == c.request.headers
            IN /\ HasKey(sent, "content-type")
               /\ IF supplied = {}
                  THEN HeadersGet(sent, "content-type") = "application/json"
                  ELSE HeadersGet(sent, "content-type") \in supplied

\* A post with a body on a client built with a Headers object naming
\* content-type, and a get whose override array names Content-Type.
C11_Witness ==
    \E c \in Calls :
        /\ Dispatched(c)
        /\ \/ /\ c.op = "post"
              /\ c.body = UserBody
              /\ config.headers = AsHeaders(<< <<"Content-Type", "2">> >>)
              /\ c.options.headers = NoHeaders
              /\ HeadersGet(c.request.headers, "content-type") = "2"
           \/ /\ c.op = "get"
              /\ config.headers = NoHeaders
              /\ c.options.headers = AsArray(<< <<"content-type", "1">> >>)
              /\ HeadersGet(c.request.headers, "content-type") = "1"


\* fetch rejected: the transport produced no response.
TransportFailed(c) == Done(c) /\ c.threw = "fetch"

\* C12: when the transport call fails without producing a response, the
\* operation returns a Failure with data null, name 'application_error',
\* statusCode null, the 'Unable to fetch data. The request could not be
\* resolved.' message, and headers null.
C12_TransportFailureResult ==
    \A c \in Calls :
        TransportFailed(c) =>
            /\ c.outcome = "returned"
            /\ IsNull(c.result.data)
            /\ ~IsNull(c.result.error)
            /\ c.result.error.name = Str("application_error")
            /\ IsNull(c.result.error.statusCode)
            /\ c.result.error.message =
                   Str("Unable to fetch data. The request could not be resolved.")
            /\ IsNull(c.result.headers)

\* A call whose one fetch rejected has completed.
C12_Witness ==
    \E c \in Calls : TransportFailed(c) /\ c.response.t = "none" /\ c.nFetch = 1

\* The result's headers are a mapping with one entry per name that holds
\* every header field of the response.
HeadersOfResponse(c) ==
    /\ ~IsNull(c.result.headers)
    /\ DistinctNames(c.result.headers.props)
    /\ Mapping(c.result.headers.props) = Mapping(c.response.headers)

\* C13: a non-2xx response whose body text is no valid JSON gives a Failure
\* with data null, statusCode the HTTP status, name 'application_error', the
\* fixed 'Internal server error. ...' message, and headers the flat mapping
\* of all response headers.
C13_UnparseableErrorBody ==
    \A c \in Calls :
        (GotText(c) /\ ~Ok(c.response) /\ JSONParse(c.read.text).threw) =>
            /\ c.outcome = "returned"
            /\ IsNull(c.result.data)
            /\ ~IsNull(c.result.error)
            /\ c.result.error.statusCode = Num(c.response.status)
            /\ c.result.error.name = Str("application_error")
            /\ c.result.error.message =
                   Str("Internal server error. We are unable to process your request right now, please try again later.")
            /\ HeadersOfResponse(c)

\* The result is a Success.
IsSuccess(c) == Returned(c) /\ IsNull(c.result.error)

\* C14: a 2xx response whose body is valid JSON gives a Success with data
\* the parsed body, error null, and headers the flat mapping of all response
\* headers; and a result is a Success only if the received status was 2xx.
C14_SuccessResult ==
    \A c \in Calls :
        /\ (GotText(c) /\ Ok(c.response) /\ ~JSONParse(c.read.text).threw) =>
            /\ IsSuccess(c)
            /\ c.result.data = JSONParse(c.read.text).value
            /\ c.read.text = ErrorBodyText =>
                   /\ GetProp(c.result.data, "message") = Str("Something went wrong")
                   /\ GetProp(c.result.data, "name") = Str("api_failure")
            /\ c.read.text = "\"oops\"" => c.result.data = Str("oops")
            /\ HeadersOfResponse(c)
        /\ IsSuccess(c) => (c.response.t = "response" /\ c.response.status \in 200..299)

\* The HTTP method an operation names.
MethodNamedBy(op) ==
    CASE op = "get" -> "GET"
      [] op = "post" -> "POST"
      [] op = "put" -> "PUT"
      [] op = "patch" -> "PATCH"
      [] op = "delete" -> "DELETE"

\* C15: the request handed to the transport carries the method the operation
\* names, and a body exactly when the operation was given a body that is not
\* absent, which is then the JSON text of that value; a get carries none.
C15_MethodAndBody ==
    \A c \in Calls :
        Dispatched(c) =>
            /\ c.request.method = MethodNamedBy(c.op)
            /\ (c.body.t = "undefined") <=> (c.request.body.t = "undefined")
            /\ c.op = "get" => c.request.body.t = "undefined"
            /\ c.body = UserBody => c.request.body = Str("{\"id\":1}")
            /\ c.body = Null => c.request.body = Str("null")

\* A delete given an object and a post given null were dispatched with their
\* JSON texts, or a post given no body with none.
C15_Witness ==
    \E c \in Calls :
        /\ Dispatched(c)
        /\ \/ c.op = "delete" /\ c.body = UserBody /\ c.request.body = Str("{\"id\":1}")
                /\ c.request.method = "DELETE"
           \/ c.op = "post" /\ c.body = Null /\ c.request.body = Str("null")

=============================================================================
